---- MODULE Spec2Model ----
(***************************************************************************)
(* Model of wing.py: the section generator (scale_and_sweep_airfoil,       *)
(* generate_wing_geometry), the control-grid assembler                     *)
(* (create_nurbs_surface_from_sections), the renderer                      *)
(* (nurbs_to_plotly_mesh) and the main program that chains them.           *)
(*                                                                         *)
(* Numbers are fixed-point integers in thousandths (1.0 is 1000); angles   *)
(* are whole degrees.  A point is a triple <<x, y, z>>.                    *)
(***************************************************************************)
EXTENDS Integers, Sequences, FiniteSets, TLC

VARIABLES pc, airfoil_points_extrados, airfoil_points_intrados, planform,
          wing_sections_extrados, wing_sections_intrados,
          nurbs_surface_extrados, nurbs_surface_intrados,
          mcrv, raised, log, calls

vars == <<pc, airfoil_points_extrados, airfoil_points_intrados, planform,
          wing_sections_extrados, wing_sections_intrados,
          nurbs_surface_extrados, nurbs_surface_intrados,
          mcrv, raised, log, calls>>

(***************************************************************************)
(* Bounds of the exploration.                                              *)
(***************************************************************************)
MaxPts == 7
MaxStations == 7
MaxGeomPts == 2
MaxGeomStations == 2
MaxCalls == 3

(***************************************************************************)
(* Arithmetic.                                                             *)
(***************************************************************************)
\* Product of two fixed-point numbers (Python's float `*`).
Mul(a, b) == (a * b) \div 1000

\* np.radians: degrees to milliradians (pi/180 = 0.0174533), symmetric in sign.
Radians(deg) ==
    IF deg >= 0 THEN (deg * 174533) \div 10000
                ELSE 0 - (((0 - deg) * 174533) \div 10000)

\* np.tan on the milliradian values the explored sweep angles convert to.
TanTable == (0 :> 0) @@ (523 :> 576) @@ (785 :> 999)

Tan(r) == IF r >= 0 THEN TanTable[r] ELSE 0 - TanTable[0 - r]

Min(a, b) == IF a <= b THEN a ELSE b

(***************************************************************************)
(* Stage 1: section generator.                                             *)
(***************************************************************************)

\* A variant that adds span_pos to the input z instead of to the zeroed z.
scale_and_sweep_airfoil_keepz(airfoil, chord, sweep_angle, span_pos) ==
    LET scaled_airfoil == [k \in 1..Len(airfoil) |->
                             <<Mul(airfoil[k][1], chord), Mul(airfoil[k][2], chord), airfoil[k][3]>>]
        sweep_dist == Mul(span_pos, Tan(Radians(sweep_angle)))
    IN  [k \in 1..Len(scaled_airfoil) |->
           <<scaled_airfoil[k][1] + sweep_dist, scaled_airfoil[k][2],
             scaled_airfoil[k][3] + span_pos>>]

scale_and_sweep_airfoil(airfoil, chord, sweep_angle, span_pos) ==
    LET scaled_airfoil == [k \in 1..Len(airfoil) |->
                             <<Mul(airfoil[k][1], chord), Mul(airfoil[k][2], chord), 0>>]
        sweep_dist == Mul(span_pos, Tan(Radians(sweep_angle)))
        swept_airfoil == [k \in 1..Len(scaled_airfoil) |->
                            <<scaled_airfoil[k][1] + sweep_dist, scaled_airfoil[k][2],
                              scaled_airfoil[k][3] + span_pos>>]
    IN  swept_airfoil

\* The for loop of generate_wing_geometry: stations k..Len(planform) are
\* still to be visited, wing_sections is the list built so far.
RECURSIVE generate_loop(_, _, _, _)
generate_loop(airfoil, planform_, k, wing_sections) ==
    IF k > Len(planform_) THEN wing_sections
    ELSE LET span_pos == planform_[k][1]
             chord == planform_[k][2]
             sweep_angle == planform_[k][3]
             section == scale_and_sweep_airfoil(airfoil, chord, sweep_angle, span_pos)
         IN  generate_loop(airfoil, planform_, k + 1, Append(wing_sections, section))

\* A variant that unpacks each station as (chord, span_pos, sweep_angle).
RECURSIVE generate_loop_swapped(_, _, _, _)
generate_loop_swapped(airfoil, planform_, k, wing_sections) ==
    IF k > Len(planform_) THEN wing_sections
    ELSE LET span_pos == planform_[k][2]
             chord == planform_[k][1]
             sweep_angle == planform_[k][3]
             section == scale_and_sweep_airfoil(airfoil, chord, sweep_angle, span_pos)
         IN  generate_loop_swapped(airfoil, planform_, k + 1, Append(wing_sections, section))

generate_wing_geometry_swapped(airfoil, planform_) ==
    generate_loop_swapped(airfoil, planform_, 1, <<>>)

generate_wing_geometry(airfoil, planform_) ==
    generate_loop(airfoil, planform_, 1, <<>>)

(***************************************************************************)
(* Stage 2: control-grid assembler.                                        *)
(***************************************************************************)

\* BSpline.Surface(): a surface with nothing set yet.
NewSurface == [degree_u |-> 0, degree_v |-> 0, ctrlpts2d |-> <<>>,
               knotvector_u |-> <<>>, knotvector_v |-> <<>>]

\* A variant of the guard that rejects only when both directions are short.
NotEnoughControlPoints_both(num_u, num_v) == num_u < 4 /\ num_v < 4

\* The guard `if num_u < 4 or num_v < 4`.
NotEnoughControlPoints(num_u, num_v) == num_u < 4 \/ num_v < 4

\* A variant of the degree rule without the cap.
DegreeFor_uncapped(num) == num - 1

\* min(num - 1, 5), used for degree_u and degree_v.
DegreeFor(num) == Min(num - 1, 5)

\* Inner loop: row i of the grid, sections j..num_v still to be visited.
RECURSIVE row_loop(_, _, _, _, _)
row_loop(wing_sections, i, j, num_v, row) ==
    IF j > num_v THEN row
    ELSE row_loop(wing_sections, i, j + 1, num_v, Append(row, wing_sections[j][i]))

\* Outer loop: rows i..num_u still to be built.
RECURSIVE grid_loop(_, _, _, _, _)
grid_loop(wing_sections, i, num_u, num_v, control_points) ==
    IF i > num_u THEN control_points
    ELSE grid_loop(wing_sections, i + 1, num_u, num_v,
                   Append(control_points, row_loop(wing_sections, i, 1, num_v, <<>>)))

\* A variant that refills the grid in flat order (a reshape) instead of
\* transposing.
control_points_reshaped(wing_sections, num_u, num_v) ==
    [i \in 1..num_u |-> [j \in 1..num_v |->
        wing_sections[(((i - 1) * num_v + (j - 1)) \div num_u) + 1]
                     [(((i - 1) * num_v + (j - 1)) % num_u) + 1]]]

control_points_of(wing_sections, num_u, num_v) ==
    grid_loop(wing_sections, 1, num_u, num_v, <<>>)

\* utils.generate_knot_vector(degree, num_ctrlpts): `degree` zeros, an even
\* subdivision of [0, 1] in num_ctrlpts - degree + 1 knots, `degree` ones.
generate_knot_vector(degree, num_ctrlpts) ==
    LET num_segments == num_ctrlpts - (degree + 1)
    IN  [n \in 1..(num_ctrlpts + degree + 1) |->
           IF n <= degree THEN 0
           ELSE IF n > degree + num_segments + 2 THEN 1000
           ELSE ((n - degree - 1) * 1000) \div (num_segments + 1)]

\* The outcome of a call: the exception it raises ("none" when it returns)
\* and the surface it returns.  Every section has the length of the first.
create_nurbs_surface_from_sections(wing_sections) ==
    IF Len(wing_sections) = 0
    THEN [exc |-> "IndexError", surface |-> NewSurface]
    ELSE LET num_u == Len(wing_sections[1])
             num_v == Len(wing_sections)
         IN  IF NotEnoughControlPoints(num_u, num_v)
             THEN [exc |-> "ValueError", surface |-> NewSurface]
             ELSE LET degree_u == DegreeFor(num_u)
                      degree_v == DegreeFor(num_v)
                      control_points == control_points_of(wing_sections, num_u, num_v)
                  IN  [exc |-> "none",
                       surface |-> [degree_u |-> degree_u,
                                    degree_v |-> degree_v,
                                    ctrlpts2d |-> control_points,
                                    knotvector_u |-> generate_knot_vector(degree_u, Len(control_points)),
                                    knotvector_v |-> generate_knot_vector(degree_v, Len(wing_sections))]]

(***************************************************************************)
(* Stage 3: renderer.  The rendered object carries the evaluation delta,   *)
(* the visualization component and the list of renders made of it, each    *)
(* recorded with the delta in force.  delta 0 and vis "none" stand for     *)
(* what the object has before this program assigns them.                   *)
(***************************************************************************)

\* multi.SurfaceContainer(a, b)
SurfaceContainer(a, b) ==
    [surfaces |-> <<a, b>>, evalpts_requests |-> 0, delta |-> 0,
     vis |-> "none", renders |-> <<>>]

\* surface_points = nurbs_surface.evalpts
RequestEvalpts(obj) == [obj EXCEPT !.evalpts_requests = @ + 1]

\* nurbs_surface.delta = 0.05
EvalDelta == 50

SetDelta(obj) == [obj EXCEPT !.delta = EvalDelta]

\* nurbs_surface.vis = VisPlotly.VisSurface(config=VisConfig(use_renderer=True))
AttachVis(obj) == [obj EXCEPT !.vis = "VisSurface"]

\* nurbs_surface.render()
Render(obj) ==
    [obj EXCEPT !.renders = Append(@, [delta |-> obj.delta, vis |-> obj.vis,
                                       evalpts_requests |-> obj.evalpts_requests])]

\* The function falls off its end: the value of the call is None.
ReturnValue == "None"

\* The whole call: the object as it leaves it and the value returned.
nurbs_to_plotly_mesh(nurbs_surface, num_u, num_v) ==
    [obj |-> Render(AttachVis(SetDelta(RequestEvalpts(nurbs_surface)))),
     ret |-> ReturnValue]

(***************************************************************************)
(* Inputs.                                                                 *)
(***************************************************************************)

\* The example airfoils of the main program.
ExtradosData ==
    << <<1000, 0, 0>>, <<900, 50, 0>>, <<800, 80, 0>>, <<700, 100, 0>>,
       <<600, 80, 0>>, <<500, 60, 0>>, <<400, 40, 0>>, <<300, 20, 0>>,
       <<200, 10, 0>>, <<100, 0, 0>>, <<0, 0, 0>> >>

IntradosData ==
    << <<1000, 0, 0>>, <<900, 0, 0>>, <<800, 0, 0>>, <<700, 0, 0>>,
       <<600, 0, 0>>, <<500, 0, 0>>, <<400, 0, 0>>, <<300, 0, 0>>,
       <<200, 0, 0>>, <<100, 0, 0>>, <<0, 0, 0>> >>

\* A planform of n stations in the shape of the example: spans growing from
\* the root, unit chord except a half chord at the tip, one sweep angle.
PlanformOf(n, sweep) ==
    [k \in 1..n |-> <<(k - 1) * 2500, IF k = n /\ n > 1 THEN 500 ELSE 1000, sweep>>]

SweepAngles == {0, 30, 0 - 45}

\* Small inputs with every kind of value, for the section generator alone.
GeomPoints == { <<1000, 0, 0>>, <<500, 60, 7>>, <<0, 0 - 40, 0 - 3>> }

GeomStations == {0, 5000} \X {1000, 500} \X SweepAngles

SeqsUpTo(S, n) == UNION { [1..k -> S] : k \in 0..n }

\* The sizes the renderer is asked for; 50 is the default of both arguments.
RenderSizes == {20, 50}

NoContainer == [surfaces |-> <<>>, evalpts_requests |-> 0, delta |-> 0,
                vis |-> "none", renders |-> <<>>]

(***************************************************************************)
(* The main program, one action per statement.  log lists the steps taken; *)
(* raised is the exception that ended the program, "none" while it runs.   *)
(***************************************************************************)
Init ==
    /\ pc = "gen_extrados"
    /\ \E ne \in 0..MaxPts, ni \in 0..MaxPts, n \in 0..MaxStations, sweep \in SweepAngles :
          /\ airfoil_points_extrados = SubSeq(ExtradosData, 1, ne)
          /\ airfoil_points_intrados = SubSeq(IntradosData, 1, ni)
          /\ planform = PlanformOf(n, sweep)
    /\ wing_sections_extrados = <<>>
    /\ wing_sections_intrados = <<>>
    /\ nurbs_surface_extrados = NewSurface
    /\ nurbs_surface_intrados = NewSurface
    /\ mcrv = NoContainer
    /\ raised = "none"
    /\ log = <<>>
    /\ calls = <<>>

GenerateExtrados ==
    /\ pc = "gen_extrados"
    /\ wing_sections_extrados' = generate_wing_geometry(airfoil_points_extrados, planform)
    /\ log' = Append(log, "generate_extrados")
    /\ pc' = "gen_intrados"
    /\ UNCHANGED <<airfoil_points_extrados, airfoil_points_intrados, planform,
                   wing_sections_intrados, nurbs_surface_extrados,
                   nurbs_surface_intrados, mcrv, raised, calls>>

GenerateIntrados ==
    /\ pc = "gen_intrados"
    /\ wing_sections_intrados' = generate_wing_geometry(airfoil_points_intrados, planform)
    /\ log' = Append(log, "generate_intrados")
    /\ pc' = "create_extrados"
    /\ UNCHANGED <<airfoil_points_extrados, airfoil_points_intrados, planform,
                   wing_sections_extrados, nurbs_surface_extrados,
                   nurbs_surface_intrados, mcrv, raised, calls>>

CreateExtrados ==
    /\ pc = "create_extrados"
    /\ LET r == create_nurbs_surface_from_sections(wing_sections_extrados)
       IN  IF r.exc = "none"
           THEN /\ nurbs_surface_extrados' = r.surface
                /\ pc' = "create_intrados"
                /\ UNCHANGED raised
           ELSE /\ raised' = r.exc
                /\ pc' = "crashed"
                /\ UNCHANGED nurbs_surface_extrados
    /\ log' = Append(log, "create_extrados")
    /\ UNCHANGED <<airfoil_points_extrados, airfoil_points_intrados, planform,
                   wing_sections_extrados, wing_sections_intrados,
                   nurbs_surface_intrados, mcrv, calls>>

\* A variant in which a failed construction does not stop the program.
CreateIntrados_swallow ==
    /\ pc = "create_intrados"
    /\ LET r == create_nurbs_surface_from_sections(wing_sections_intrados)
       IN  /\ nurbs_surface_intrados' = r.surface
           /\ raised' = r.exc
           /\ pc' = "container"
    /\ log' = Append(log, "create_intrados")
    /\ UNCHANGED <<airfoil_points_extrados, airfoil_points_intrados, planform,
                   wing_sections_extrados, wing_sections_intrados,
                   nurbs_surface_extrados, mcrv, calls>>

CreateIntrados ==
    /\ pc = "create_intrados"
    /\ LET r == create_nurbs_surface_from_sections(wing_sections_intrados)
       IN  IF r.exc = "none"
           THEN /\ nurbs_surface_intrados' = r.surface
                /\ pc' = "container"
                /\ UNCHANGED raised
           ELSE /\ raised' = r.exc
                /\ pc' = "crashed"
                /\ UNCHANGED nurbs_surface_intrados
    /\ log' = Append(log, "create_intrados")
    /\ UNCHANGED <<airfoil_points_extrados, airfoil_points_intrados, planform,
                   wing_sections_extrados, wing_sections_intrados,
                   nurbs_surface_extrados, mcrv, calls>>

BuildContainer ==
    /\ pc = "container"
    /\ mcrv' = SurfaceContainer(nurbs_surface_extrados, nurbs_surface_intrados)
    /\ log' = Append(log, "container")
    /\ pc' = "call_renderer"
    /\ UNCHANGED <<airfoil_points_extrados, airfoil_points_intrados, planform,
                   wing_sections_extrados, wing_sections_intrados,
                   nurbs_surface_extrados, nurbs_surface_intrados, raised, calls>>

\* nurbs_to_plotly_mesh(mcrv), statement by statement.
EnterRenderer ==
    /\ pc = "call_renderer"
    /\ log' = Append(log, "enter_renderer")
    /\ pc' = "r_evalpts"
    /\ UNCHANGED <<airfoil_points_extrados, airfoil_points_intrados, planform,
                   wing_sections_extrados, wing_sections_intrados,
                   nurbs_surface_extrados, nurbs_surface_intrados, mcrv, raised, calls>>

StepEvalpts ==
    /\ pc = "r_evalpts"
    /\ mcrv' = RequestEvalpts(mcrv)
    /\ log' = Append(log, "evalpts")
    /\ pc' = "r_delta"
    /\ UNCHANGED <<airfoil_points_extrados, airfoil_points_intrados, planform,
                   wing_sections_extrados, wing_sections_intrados,
                   nurbs_surface_extrados, nurbs_surface_intrados, raised, calls>>

StepDelta ==
    /\ pc = "r_delta"
    /\ mcrv' = SetDelta(mcrv)
    /\ log' = Append(log, "delta")
    /\ pc' = "r_vis"
    /\ UNCHANGED <<airfoil_points_extrados, airfoil_points_intrados, planform,
                   wing_sections_extrados, wing_sections_intrados,
                   nurbs_surface_extrados, nurbs_surface_intrados, raised, calls>>

StepVis ==
    /\ pc = "r_vis"
    /\ mcrv' = AttachVis(mcrv)
    /\ log' = Append(log, "vis")
    /\ pc' = "r_render"
    /\ UNCHANGED <<airfoil_points_extrados, airfoil_points_intrados, planform,
                   wing_sections_extrados, wing_sections_intrados,
                   nurbs_surface_extrados, nurbs_surface_intrados, raised, calls>>

StepRender ==
    /\ pc = "r_render"
    /\ mcrv' = Render(mcrv)
    /\ log' = Append(log, "render")
    /\ pc' = "r_return"
    /\ UNCHANGED <<airfoil_points_extrados, airfoil_points_intrados, planform,
                   wing_sections_extrados, wing_sections_intrados,
                   nurbs_surface_extrados, nurbs_surface_intrados, raised, calls>>

ReturnFromRenderer ==
    /\ pc = "r_return"
    /\ calls' = Append(calls, [num_u |-> 50, num_v |-> 50,
                               delta |-> mcrv.renders[Len(mcrv.renders)].delta,
                               ret |-> ReturnValue])
    /\ log' = Append(log, "return")
    /\ pc' = "done"
    /\ UNCHANGED <<airfoil_points_extrados, airfoil_points_intrados, planform,
                   wing_sections_extrados, wing_sections_intrados,
                   nurbs_surface_extrados, nurbs_surface_intrados, mcrv, raised>>

Next ==
    \/ GenerateExtrados
    \/ GenerateIntrados
    \/ CreateExtrados
    \/ CreateIntrados
    \/ BuildContainer
    \/ EnterRenderer
    \/ StepEvalpts
    \/ StepDelta
    \/ StepVis
    \/ StepRender
    \/ ReturnFromRenderer

Spec == Init /\ [][Next]_vars

(***************************************************************************)
(* The section generator on its own: any small airfoil, any small          *)
(* planform.                                                               *)
(***************************************************************************)
InitGeom ==
    /\ pc = "gen_extrados"
    /\ airfoil_points_extrados \in SeqsUpTo(GeomPoints, MaxGeomPts)
    /\ airfoil_points_intrados = <<>>
    /\ planform \in SeqsUpTo(GeomStations, MaxGeomStations)
    /\ wing_sections_extrados = <<>>
    /\ wing_sections_intrados = <<>>
    /\ nurbs_surface_extrados = NewSurface
    /\ nurbs_surface_intrados = NewSurface
    /\ mcrv = NoContainer
    /\ raised = "none"
    /\ log = <<>>
    /\ calls = <<>>

NextGeom == GenerateExtrados

SpecGeom == InitGeom /\ [][NextGeom]_vars

(***************************************************************************)
(* The renderer on its own: repeated calls, with any sizes, on the         *)
(* container the main program has built.                                   *)
(***************************************************************************)
InitRender ==
    /\ pc = "call_renderer"
    /\ \E ne \in 4..MaxPts, ni \in 4..MaxPts, n \in 4..MaxStations :
          /\ airfoil_points_extrados = SubSeq(ExtradosData, 1, ne)
          /\ airfoil_points_intrados = SubSeq(IntradosData, 1, ni)
          /\ planform = PlanformOf(n, 0)
    /\ wing_sections_extrados = generate_wing_geometry(airfoil_points_extrados, planform)
    /\ wing_sections_intrados = generate_wing_geometry(airfoil_points_intrados, planform)
    /\ nurbs_surface_extrados = create_nurbs_surface_from_sections(wing_sections_extrados).surface
    /\ nurbs_surface_intrados = create_nurbs_surface_from_sections(wing_sections_intrados).surface
    /\ mcrv = SurfaceContainer(nurbs_surface_extrados, nurbs_surface_intrados)
    /\ raised = "none"
    /\ log = <<"generate_extrados", "generate_intrados", "create_extrados",
               "create_intrados", "container">>
    /\ calls = <<>>

RenderCall ==
    /\ pc = "call_renderer"
    /\ Len(calls) < MaxCalls
    /\ \E num_u \in RenderSizes, num_v \in RenderSizes :
          LET r == nurbs_to_plotly_mesh(mcrv, num_u, num_v)
          IN  /\ mcrv' = r.obj
              /\ calls' = Append(calls, [num_u |-> num_u, num_v |-> num_v,
                                         delta |-> r.obj.renders[Len(r.obj.renders)].delta,
                                         ret |-> r.ret])
    /\ UNCHANGED <<pc, airfoil_points_extrados, airfoil_points_intrados, planform,
                   wing_sections_extrados, wing_sections_intrados,
                   nurbs_surface_extrados, nurbs_surface_intrados, raised, log>>

NextRender == RenderCall

SpecRender == InitRender /\ [][NextRender]_vars

(***************************************************************************)
(* Vocabulary of the properties.                                           *)
(***************************************************************************)
Has(e) == \E n \in 1..Len(log) : log[n] = e

Count(e) == Cardinality({n \in 1..Len(log) : log[n] = e})

Pos(e) == CHOOSE n \in 1..Len(log) : log[n] = e

Before(a, b) == Has(a) /\ Has(b) /\ Pos(a) < Pos(b)

\* The call logged as e is the one that ended the program.
RaisedIn(e) == pc = "crashed" /\ Len(log) > 0 /\ log[Len(log)] = e

\* The call logged as e was made and returned.
ReturnedFrom(e) == Has(e) /\ ~RaisedIn(e)

Rectangular(ws) == \A k \in 1..Len(ws) : Len(ws[k]) = Len(ws[1])

(***************************************************************************)
(* C1: for a non-empty rectangular list of sections, the construction      *)
(* raises ValueError exactly when there are fewer than 4 points per        *)
(* section or fewer than 4 sections; otherwise it raises nothing and       *)
(* returns a surface.                                                      *)
(***************************************************************************)
C1_For(ws, surface, e) ==
    (Has(e) /\ Len(ws) > 0 /\ Rectangular(ws)) =>
        LET num_u == Len(ws[1])
            num_v == Len(ws)
            short == num_u < 4 \/ num_v < 4
        IN  /\ (RaisedIn(e) /\ raised = "ValueError") <=> short
            /\ ~short => (~RaisedIn(e) /\ surface # NewSurface)

C1_GuardExact ==
    /\ C1_For(wing_sections_extrados, nurbs_surface_extrados, "create_extrados")
    /\ C1_For(wing_sections_intrados, nurbs_surface_intrados, "create_intrados")

\* A grid with enough points per section but too few sections was rejected.
C1_Witness ==
    /\ RaisedIn("create_extrados")
    /\ raised = "ValueError"
    /\ Len(wing_sections_extrados) \in 1..3
    /\ Len(wing_sections_extrados[1]) >= 4

(***************************************************************************)
(* C2: every construction from fewer than 4 sections, the empty list       *)
(* included, ends in ValueError and in no other error.                     *)
(***************************************************************************)
C2_For(ws, e) ==
    (Has(e) /\ Len(ws) < 4) => (RaisedIn(e) /\ raised = "ValueError")

C2_ShortInputRaisesValueError ==
    /\ C2_For(wing_sections_extrados, "create_extrados")
    /\ C2_For(wing_sections_intrados, "create_intrados")

(***************************************************************************)
(* C3: the control-point grid of a returned surface is the exact transpose *)
(* of the sections: num_u rows of num_v points, entry [i][j] being point i *)
(* of section j.                                                           *)
(***************************************************************************)
C3_For(ws, surface, e) ==
    ReturnedFrom(e) =>
        LET num_u == Len(ws[1])
            num_v == Len(ws)
            grid == surface.ctrlpts2d
        IN  /\ Len(grid) = num_u
            /\ \A i \in 1..num_u : Len(grid[i]) = num_v
            /\ \A i \in 1..num_u : \A j \in 1..num_v : grid[i][j] = ws[j][i]

C3_GridIsTranspose ==
    /\ C3_For(wing_sections_extrados, nurbs_surface_extrados, "create_extrados")
    /\ C3_For(wing_sections_intrados, nurbs_surface_intrados, "create_intrados")

\* A surface was returned for a grid that is not square.
C3_Witness ==
    /\ ReturnedFrom("create_extrados")
    /\ ReturnedFrom("create_intrados")
    /\ Len(wing_sections_extrados) # Len(wing_sections_extrados[1])
    /\ Len(wing_sections_intrados) # Len(wing_sections_intrados[1])

(***************************************************************************)
(* C8: a returned surface has degree min(n - 1, 5) in each direction, n    *)
(* being the number of control points in that direction; so the degree is  *)
(* between 3 and 5 and at most n - 1.                                      *)
(***************************************************************************)
C8_Degree(degree, num) ==
    /\ degree = (IF num - 1 <= 5 THEN num - 1 ELSE 5)
    /\ degree >= 3
    /\ degree <= 5
    /\ degree <= num - 1

C8_For(ws, surface, e) ==
    ReturnedFrom(e) =>
        /\ C8_Degree(surface.degree_u, Len(ws[1]))
        /\ C8_Degree(surface.degree_v, Len(ws))

C8_DegreeRule ==
    /\ C8_For(wing_sections_extrados, nurbs_surface_extrados, "create_extrados")
    /\ C8_For(wing_sections_intrados, nurbs_surface_intrados, "create_intrados")

\* A surface was returned with the cap reached in one direction and not in
\* the other.
C8_Witness ==
    /\ ReturnedFrom("create_extrados")
    /\ Len(wing_sections_extrados[1]) >= 7
    /\ Len(wing_sections_extrados) = 4
    /\ nurbs_surface_extrados.degree_u = 5
    /\ nurbs_surface_extrados.degree_v = 3

(***************************************************************************)
(* C4: the section generator returns one section per planform station, in  *)
(* planform order, section k being the airfoil transformed with station    *)
(* k's span position, chord and sweep angle, every section as long as the  *)
(* airfoil.                                                                *)
(***************************************************************************)
C4_For(airfoil, ws, e) ==
    Has(e) =>
        /\ Len(ws) = Len(planform)
        /\ \A k \in 1..Len(ws) :
              /\ k <= Len(planform)
              /\ Len(ws[k]) = Len(airfoil)
              /\ ws[k] = scale_and_sweep_airfoil(airfoil, planform[k][2],
                                                 planform[k][3], planform[k][1])

C4_OneSectionPerStation ==
    /\ C4_For(airfoil_points_extrados, wing_sections_extrados, "generate_extrados")
    /\ C4_For(airfoil_points_intrados, wing_sections_intrados, "generate_intrados")

\* Sections were generated for two different stations and a two-point airfoil.
C4_Witness ==
    /\ Has("generate_extrados")
    /\ Len(planform) >= 2
    /\ planform[1] # planform[2]
    /\ Len(airfoil_points_extrados) >= 2
    /\ Len(wing_sections_extrados) = Len(planform)

(***************************************************************************)
(* C5: a section maps every airfoil point (x, y, z) to                     *)
(* (x*chord + d, y*chord, span_pos), d being span_pos * tan(sweep_angle),  *)
(* the same for all points of the section and zero when the sweep angle or *)
(* the span position is zero; the input z plays no part.                   *)
(***************************************************************************)
C5_For(airfoil, ws, e) ==
    Has(e) =>
        \A k \in 1..Len(ws) :
            k <= Len(planform) =>
                LET span_pos == planform[k][1]
                    chord == planform[k][2]
                    sweep_angle == planform[k][3]
                    d == Mul(span_pos, Tan(Radians(sweep_angle)))
                IN  /\ Len(ws[k]) = Len(airfoil)
                    /\ \A n \in 1..Len(ws[k]) :
                          /\ ws[k][n] = <<Mul(airfoil[n][1], chord) + d,
                                          Mul(airfoil[n][2], chord), span_pos>>
                          /\ (sweep_angle = 0 \/ span_pos = 0) =>
                                ws[k][n][1] = Mul(airfoil[n][1], chord)

C5_AffineMap ==
    /\ C5_For(airfoil_points_extrados, wing_sections_extrados, "generate_extrados")
    /\ C5_For(airfoil_points_intrados, wing_sections_intrados, "generate_intrados")

\* A swept station away from the root was applied to a point with z # 0.
C5_Witness ==
    /\ Has("generate_extrados")
    /\ \E k \in 1..Len(planform) :
          /\ planform[k][1] # 0
          /\ planform[k][3] # 0
          /\ k <= Len(wing_sections_extrados)
          /\ \E n \in 1..Len(airfoil_points_extrados) :
                /\ airfoil_points_extrados[n][3] # 0
                /\ wing_sections_extrados[k][n][3] = planform[k][1]

(***************************************************************************)
(* C6: the value of every call of the renderer is a visualization object,  *)
(* not an absent value.                                                    *)
(***************************************************************************)
C6_ReturnsSurfaceObject ==
    \A c \in 1..Len(calls) : calls[c].ret # "None"

(***************************************************************************)
(* C7: the evaluation resolution set before rendering is determined by     *)
(* num_u and num_v: two calls on the same surface with different num_u or  *)
(* num_v render with different resolutions.                                *)
(***************************************************************************)
C7_ResolutionFollowsSizes ==
    \A a \in 1..Len(calls) : \A b \in 1..Len(calls) :
        (calls[a].num_u # calls[b].num_u \/ calls[a].num_v # calls[b].num_v)
            => calls[a].delta # calls[b].delta

(***************************************************************************)
(* C9: in the main program every stage runs at most once and in order:     *)
(* a surface is constructed after its sections were generated, the         *)
(* renderer is entered after both surfaces were constructed, render()      *)
(* comes after the evaluated points were requested, the delta was set and  *)
(* the visualization component was attached; a completed run has done      *)
(* every stage exactly once, and a run in which a construction raised      *)
(* ValueError never enters the renderer.                                   *)
(***************************************************************************)
Steps == {"generate_extrados", "generate_intrados", "create_extrados",
          "create_intrados", "container", "enter_renderer", "evalpts",
          "delta", "vis", "render", "return"}

C9_StagesInOrder ==
    /\ \A e \in Steps : Count(e) <= 1
    /\ Has("create_extrados") => Before("generate_extrados", "create_extrados")
    /\ Has("create_intrados") => Before("generate_intrados", "create_intrados")
    /\ Has("enter_renderer") =>
          /\ Before("create_extrados", "enter_renderer")
          /\ Before("create_intrados", "enter_renderer")
          /\ nurbs_surface_extrados # NewSurface
          /\ nurbs_surface_intrados # NewSurface
          /\ mcrv.surfaces = <<nurbs_surface_extrados, nurbs_surface_intrados>>
    /\ Has("render") =>
          /\ Before("enter_renderer", "evalpts")
          /\ Before("evalpts", "render")
          /\ Before("delta", "render")
          /\ Before("vis", "render")
          /\ Len(mcrv.renders) = 1
          /\ mcrv.renders[1].evalpts_requests = 1
          /\ mcrv.renders[1].delta = EvalDelta
          /\ mcrv.renders[1].vis = "VisSurface"
    /\ ~Has("render") => mcrv.renders = <<>>
    /\ pc = "done" => \A e \in Steps : Count(e) = 1
    /\ raised # "none" => (pc = "crashed" /\ ~Has("enter_renderer"))

\* The run completed: the container was rendered once.
C9_Witness ==
    /\ pc = "done"
    /\ Len(mcrv.renders) = 1
    /\ Count("enter_renderer") = 1

====
